---- MODULE Spec2Model ----
(***************************************************************************)
(* Model of the embedding service (src/embedding-service/main.py): the     *)
(* module-level start-up code, the pure helpers (normalize_embedding,      *)
(* cosine_similarity, the sigmoid, the sort and the 6-decimal rounding)    *)
(* and the four request handlers /health, /info, /embed and /rerank.       *)
(*                                                                         *)
(* Floats are fixed-point integers.  A score is an integer number of       *)
(* 10^-9 units (One == 1.0); a returned relevance_score is an integer      *)
(* number of 10^-6 units, as produced by float(f"{score:.6f}").            *)
(* Embedding entries are small integers standing for floats.               *)
(***************************************************************************)
EXTENDS Integers, Sequences, FiniteSets, Bags, TLC

(* ------------------------------ bounds -------------------------------- *)
MaxDim == 2
MaxKeys == 2
MaxCalls == 3
MaxInflight == 2
MaxDocs == 3
MaxFallbackDocs == 102
Small == 1

(* ----------------------------- constants ------------------------------ *)
ScoreDecimals == 6
Fine == 10 ^ 3
Micro == 10 ^ ScoreDecimals
One == Micro * Fine
FallbackStep == One \div 100

Vals == {0, 1}
Vectors(maxlen) == UNION {[1..n -> Vals] : n \in 0..maxlen}
KeyLists == {[i \in 1..n |-> i] : n \in 0..MaxKeys}
EmbeddingProviders == {"local", "ollama", "gemini", "other"}
RerankProviders == {"local", "ollama", "other"}

VARIABLES
    pc,                 \* position in the module-level start-up code (47-83)
    environ,            \* os.environ: the providers as configured (31, 32)
    EMBEDDING_PROVIDER, \* line 31, reassigned at line 72
    RERANK_PROVIDER,    \* line 32, reassigned at line 83
    TARGET_DIMENSION,   \* line 30
    GEMINI_API_KEYS,    \* line 38; a key is named by its place in the list
    gemini_key_cycle,   \* lines 49, 57: None, or the place next() reads
    embedding_model,    \* lines 61, 67: TRUE when the model is loaded
    rerank_model,       \* lines 62, 78: TRUE when the model is loaded
    inflight,           \* bag of get_gemini_embedding calls awaiting line 199
    key_log,            \* current_key of every call so far (line 189)
    request,            \* the request of the handler that is returning
    upstream,           \* what the backends did for that request
    response            \* the response, or NoResponse between requests

config == <<environ, EMBEDDING_PROVIDER, RERANK_PROVIDER, TARGET_DIMENSION,
            GEMINI_API_KEYS, embedding_model, rerank_model>>
module_state == <<config, gemini_key_cycle>>
vars == <<pc, module_state, inflight, key_log, request, upstream, response>>

(* --------------------------- value helpers ---------------------------- *)
Return(v) == [ok |-> TRUE, value |-> v, exc |-> <<>>]
Raise(e) == [ok |-> FALSE, value |-> <<>>, exc |-> <<e>>]
HTTPException(status_code, category, cause) ==
    [type |-> "HTTPException", status |-> status_code,
     category |-> category, cause |-> cause]
PlainException(type, message) ==
    [type |-> type, status |-> 0, category |-> "", cause |-> message]

NoRequest == [endpoint |-> "none", normalize |-> FALSE, documents |-> <<>>,
              top_k |-> <<>>]
NoUpstream == [provider |-> "none", calls |-> 0, failure |-> "none",
               vector |-> <<>>, scores |-> <<>>, keys_taken |-> 0]
NoResponse == [endpoint |-> "none", status |-> 0, category |-> "",
               cause |-> "", embedding |-> <<>>, dimension |-> 0,
               results |-> <<>>, body |-> <<>>]

NoCycle == [active |-> FALSE, pos |-> 0]

\* no response is being written: the previous handler has returned
Idle == response = NoResponse

(* ------------------------------ start-up ------------------------------ *)
Init ==
    /\ pc = "keys"
    /\ EMBEDDING_PROVIDER \in EmbeddingProviders
    /\ RERANK_PROVIDER \in RerankProviders
    /\ environ = [EMBEDDING_PROVIDER |-> EMBEDDING_PROVIDER,
                  RERANK_PROVIDER |-> RERANK_PROVIDER]
    /\ TARGET_DIMENSION \in 0..MaxDim
    /\ GEMINI_API_KEYS \in KeyLists
    /\ gemini_key_cycle = NoCycle
    /\ embedding_model = FALSE
    /\ rerank_model = FALSE
    /\ inflight = EmptyBag
    /\ key_log = <<>>
    /\ request = NoRequest
    /\ upstream = NoUpstream
    /\ response = NoResponse

StartupKeys ==
    /\ pc = "keys"
    /\ gemini_key_cycle' =
          IF EMBEDDING_PROVIDER = "gemini" /\ GEMINI_API_KEYS # <<>>
          THEN [active |-> TRUE, pos |-> 0]
          ELSE NoCycle
    /\ pc' = "load_embedding"
    /\ UNCHANGED <<config, inflight, key_log, request, upstream, response>>

\* mutant: a failed load leaves the provider as configured
LoadEmbeddingKeepsLocal ==
    /\ pc = "load_embedding"
    /\ \E loaded \in BOOLEAN :
          IF EMBEDDING_PROVIDER = "local" /\ loaded
          THEN embedding_model' = TRUE /\ UNCHANGED EMBEDDING_PROVIDER
          ELSE UNCHANGED <<EMBEDDING_PROVIDER, embedding_model>>
    /\ pc' = "load_rerank"
    /\ UNCHANGED <<environ, RERANK_PROVIDER, TARGET_DIMENSION, GEMINI_API_KEYS,
                   rerank_model, gemini_key_cycle, inflight, key_log,
                   request, upstream, response>>

LoadEmbedding ==
    /\ pc = "load_embedding"
    /\ \E loaded \in BOOLEAN :
          IF EMBEDDING_PROVIDER = "local"
          THEN IF loaded
               THEN embedding_model' = TRUE /\ UNCHANGED EMBEDDING_PROVIDER
               ELSE EMBEDDING_PROVIDER' = "ollama" /\ UNCHANGED embedding_model
          ELSE UNCHANGED <<EMBEDDING_PROVIDER, embedding_model>>
    /\ pc' = "load_rerank"
    /\ UNCHANGED <<environ, RERANK_PROVIDER, TARGET_DIMENSION, GEMINI_API_KEYS,
                   rerank_model, gemini_key_cycle, inflight, key_log,
                   request, upstream, response>>

LoadRerank ==
    /\ pc = "load_rerank"
    /\ \E loaded \in BOOLEAN :
          IF RERANK_PROVIDER = "local"
          THEN IF loaded
               THEN rerank_model' = TRUE /\ UNCHANGED RERANK_PROVIDER
               ELSE RERANK_PROVIDER' = "ollama" /\ UNCHANGED rerank_model
          ELSE UNCHANGED <<RERANK_PROVIDER, rerank_model>>
    /\ pc' = "serving"
    /\ UNCHANGED <<environ, EMBEDDING_PROVIDER, TARGET_DIMENSION,
                   GEMINI_API_KEYS, embedding_model, gemini_key_cycle,
                   inflight, key_log, request, upstream, response>>

(* ------------------------------ /embed -------------------------------- *)
\* mutant: the zeros are put in front of the entries
normalize_embedding_pads_front(embedding) ==
    LET current_dim == Len(embedding)
    IN  IF current_dim = TARGET_DIMENSION
        THEN Return(embedding)
        ELSE IF current_dim < TARGET_DIMENSION
        THEN Return([i \in 1..(TARGET_DIMENSION - current_dim) |-> 0] \o embedding)
        ELSE Raise(PlainException("ValueError", "dimension exceeds maximum"))

\* mutant: an oversized vector is cut to the target dimension
normalize_embedding_truncates(embedding) ==
    LET current_dim == Len(embedding)
    IN  IF current_dim = TARGET_DIMENSION
        THEN Return(embedding)
        ELSE IF current_dim < TARGET_DIMENSION
        THEN Return(embedding \o [i \in 1..(TARGET_DIMENSION - current_dim) |-> 0])
        ELSE Return(SubSeq(embedding, 1, TARGET_DIMENSION))

\* mutant: a vector of the target dimension is padded too (== read as <=)
normalize_embedding_pads_full(embedding) ==
    LET current_dim == Len(embedding)
    IN  IF current_dim <= TARGET_DIMENSION
        THEN Return(embedding \o [i \in 1..(TARGET_DIMENSION - current_dim + 1) |-> 0])
        ELSE Raise(PlainException("ValueError", "dimension exceeds maximum"))

normalize_embedding(embedding) ==
    LET current_dim == Len(embedding)
    IN  IF current_dim = TARGET_DIMENSION
        THEN Return(embedding)
        ELSE IF current_dim < TARGET_DIMENSION
        THEN Return(embedding \o [i \in 1..(TARGET_DIMENSION - current_dim) |-> 0])
        ELSE Raise(PlainException("ValueError", "dimension exceeds maximum"))

OllamaOutcomes == {"ok", "status_error", "connect_error", "malformed_body"}

get_ollama_embedding(outcome, vector) ==
    IF outcome = "ok"
    THEN Return(vector)
    ELSE IF outcome = "status_error"
    THEN Raise(HTTPException(502, "Ollama API error", outcome))
    ELSE Raise(HTTPException(500, "Ollama connection failed", outcome))

GeminiOutcomes == {"ok", "api_error"}

get_gemini_embedding(has_key, outcome, vector) ==
    IF ~has_key
    THEN Raise(HTTPException(500, "Gemini API error", "No Gemini API keys configured"))
    ELSE IF outcome = "ok"
    THEN Return(vector)
    ELSE Raise(HTTPException(500, "Gemini API error", outcome))

LocalOutcomes == {"ok", "encode_error"}

local_encode(outcome, vector) ==
    IF outcome = "ok"
    THEN Return(vector)
    ELSE Raise(PlainException("RuntimeError", outcome))

\* mutant: the iterator is never advanced
next_key_pos_stuck(pos) == pos

next_key_pos(pos) == (pos + 1) % Len(GEMINI_API_KEYS)

ErrorResponse(endpoint, e) ==
    [NoResponse EXCEPT !.endpoint = endpoint, !.status = e.status,
                       !.category = e.category, !.cause = e.cause]

EmbedResponse(embedding) ==
    [NoResponse EXCEPT !.endpoint = "embed", !.status = 200,
                       !.embedding = embedding, !.dimension = Len(embedding)]

\* mutant: the handler has no "except HTTPException: raise"
embed_except_wraps_all(e) ==
    HTTPException(500, "Embedding generation failed", e.cause)

embed_except(e) ==
    IF e.type = "HTTPException"
    THEN e
    ELSE HTTPException(500, "Embedding generation failed", e.cause)

embed_finish(backend, normalize) ==
    IF ~backend.ok
    THEN ErrorResponse("embed", embed_except(backend.exc[1]))
    ELSE LET normalized == IF normalize
                           THEN normalize_embedding(backend.value)
                           ELSE Return(backend.value)
         IN  IF normalized.ok
             THEN EmbedResponse(normalized.value)
             ELSE ErrorResponse("embed", embed_except(normalized.exc[1]))

EmbedRequest(normalize) ==
    [NoRequest EXCEPT !.endpoint = "embed", !.normalize = normalize]

Failure(outcome) == IF outcome = "ok" THEN "none" ELSE outcome

EmbedOllama(maxlen) ==
    /\ pc = "serving"
    /\ Idle
    /\ EMBEDDING_PROVIDER = "ollama"
    /\ \E normalize \in BOOLEAN, outcome \in OllamaOutcomes,
          vector \in Vectors(maxlen) :
          /\ outcome # "ok" => vector = <<>>
          /\ request' = EmbedRequest(normalize)
          /\ upstream' = [NoUpstream EXCEPT !.provider = "ollama", !.calls = 1,
                                            !.failure = Failure(outcome),
                                            !.vector = vector]
          /\ response' = embed_finish(get_ollama_embedding(outcome, vector), normalize)
    /\ UNCHANGED <<pc, module_state, inflight, key_log>>

EmbedGeminiNoKeys ==
    /\ pc = "serving"
    /\ Idle
    /\ EMBEDDING_PROVIDER = "gemini"
    /\ ~gemini_key_cycle.active
    /\ \E normalize \in BOOLEAN :
          /\ request' = EmbedRequest(normalize)
          /\ upstream' = [NoUpstream EXCEPT !.provider = "gemini",
                                            !.failure = "no_keys"]
          /\ response' = embed_finish(get_gemini_embedding(FALSE, "ok", <<>>), normalize)
    /\ UNCHANGED <<pc, module_state, inflight, key_log>>

EmbedGeminiStart(maxinflight, maxcalls) ==
    /\ pc = "serving"
    /\ EMBEDDING_PROVIDER = "gemini"
    /\ gemini_key_cycle.active
    /\ Len(key_log) < maxcalls
    /\ BagCardinality(inflight) < maxinflight
    /\ \E normalize \in BOOLEAN :
          LET current_key == GEMINI_API_KEYS[gemini_key_cycle.pos + 1]
          IN  /\ gemini_key_cycle' =
                    [gemini_key_cycle EXCEPT !.pos = next_key_pos(gemini_key_cycle.pos)]
              /\ key_log' = Append(key_log, current_key)
              /\ inflight' = inflight (+) SetToBag({[key |-> current_key,
                                                      normalize |-> normalize]})
    /\ UNCHANGED <<pc, config, request, upstream, response>>

EmbedGeminiFinish(maxlen) ==
    /\ pc = "serving"
    /\ Idle
    /\ \E call \in BagToSet(inflight), outcome \in GeminiOutcomes,
          vector \in Vectors(maxlen) :
          /\ outcome # "ok" => vector = <<>>
          /\ request' = EmbedRequest(call.normalize)
          /\ upstream' = [NoUpstream EXCEPT !.provider = "gemini", !.calls = 1,
                                            !.failure = Failure(outcome),
                                            !.vector = vector,
                                            !.keys_taken = call.key]
          /\ response' = embed_finish(get_gemini_embedding(TRUE, outcome, vector),
                                      call.normalize)
          /\ inflight' = inflight (-) SetToBag({call})
    /\ UNCHANGED <<pc, module_state, key_log>>

\* mutant: a failing local model switches the provider at request time
EmbedLocalFallsBack(maxlen) ==
    /\ pc = "serving"
    /\ Idle
    /\ EMBEDDING_PROVIDER = "local"
    /\ \E normalize \in BOOLEAN, outcome \in LocalOutcomes,
          vector \in Vectors(maxlen) :
          /\ outcome # "ok" => vector = <<>>
          /\ request' = EmbedRequest(normalize)
          /\ upstream' = [NoUpstream EXCEPT !.provider = "local", !.calls = 1,
                                            !.failure = Failure(outcome),
                                            !.vector = vector]
          /\ response' = embed_finish(local_encode(outcome, vector), normalize)
          /\ EMBEDDING_PROVIDER' = IF outcome = "ok" THEN "local" ELSE "ollama"
    /\ UNCHANGED <<pc, environ, RERANK_PROVIDER, TARGET_DIMENSION,
                   GEMINI_API_KEYS, embedding_model, rerank_model,
                   gemini_key_cycle, inflight, key_log>>

EmbedLocal(maxlen) ==
    /\ pc = "serving"
    /\ Idle
    /\ EMBEDDING_PROVIDER = "local"
    /\ \E normalize \in BOOLEAN, outcome \in LocalOutcomes,
          vector \in Vectors(maxlen) :
          /\ outcome # "ok" => vector = <<>>
          /\ request' = EmbedRequest(normalize)
          /\ IF ~embedding_model
             THEN /\ upstream' = [NoUpstream EXCEPT !.provider = "local",
                                                    !.failure = "not_loaded"]
                  /\ response' = ErrorResponse("embed", embed_except(
                        HTTPException(503, "Local embedding model not available", "")))
             ELSE /\ upstream' = [NoUpstream EXCEPT !.provider = "local", !.calls = 1,
                                                    !.failure = Failure(outcome),
                                                    !.vector = vector]
                  /\ response' = embed_finish(local_encode(outcome, vector), normalize)
    /\ UNCHANGED <<pc, module_state, inflight, key_log>>

EmbedOther ==
    /\ pc = "serving"
    /\ Idle
    /\ EMBEDDING_PROVIDER \notin {"ollama", "gemini", "local"}
    /\ \E normalize \in BOOLEAN :
          /\ request' = EmbedRequest(normalize)
          /\ upstream' = [NoUpstream EXCEPT !.provider = EMBEDDING_PROVIDER]
          /\ response' = ErrorResponse("embed", embed_except(
                HTTPException(501, "Provider not implemented", EMBEDDING_PROVIDER)))
    /\ UNCHANGED <<pc, module_state, inflight, key_log>>

(* ------------------------------ /rerank ------------------------------- *)
Min(a, b) == IF a < b THEN a ELSE b
Abs(a) == IF a < 0 THEN -a ELSE a

RECURSIVE SumProd(_, _, _)
SumProd(a, b, i) == IF i = 0 THEN 0 ELSE a[i] * b[i] + SumProd(a, b, i - 1)

ISqrt(x) == CHOOSE r \in 0..x : r * r <= x /\ (r + 1) * (r + 1) > x

\* num * One / den without leaving 32 bits, for 0 <= num <= den
Ratio(num, den) == num * (One \div den) + (num * (One % den)) \div den

RerankVecs == {<<3, 4>>, <<4, 3>>, <<-3, -4>>, <<0, 0>>, <<5>>}

cosine_similarity(vec1, vec2) ==
    IF Len(vec1) # Len(vec2)
    THEN Raise(PlainException("ValueError", "shapes not aligned"))
    ELSE LET dot_product == SumProd(vec1, vec2, Len(vec1))
             norm1 == ISqrt(SumProd(vec1, vec1, Len(vec1)))
             norm2 == ISqrt(SumProd(vec2, vec2, Len(vec2)))
         IN  IF norm1 = 0 \/ norm2 = 0
             THEN Return(0)
             ELSE IF dot_product < 0
             THEN Return(-Ratio(Abs(dot_product), norm1 * norm2))
             ELSE Return(Ratio(dot_product, norm1 * norm2))

Logits == {-21, -20, 0, 20}

\* 1 / (1 + exp(-x)) in units of 10^-9, for the logits of the model
sigmoid(x) ==
    CASE x = -21 -> 1
      [] x = -20 -> 2
      [] x = 0 -> One \div 2
      [] x = 20 -> One - 2

\* float(f"{score:.6f}"): round to ScoreDecimals, ties to even
round6(score) ==
    LET q == score \div Fine
        r == score % Fine
    IN  IF 2 * r > Fine THEN q + 1
        ELSE IF 2 * r < Fine THEN q
        ELSE IF q % 2 = 0 THEN q ELSE q + 1

\* mutant: the list is left in input order
insert_unsorted(sorted, x) == Append(sorted, x)

\* mutant: an element goes in front of the elements of equal score
insert_unstable(sorted, x) ==
    LET k == Cardinality({i \in 1..Len(sorted) : sorted[i].score > x.score})
    IN  SubSeq(sorted, 1, k) \o <<x>> \o SubSeq(sorted, k + 1, Len(sorted))

\* list.sort(key=score, reverse=True): stable, descending
insert_desc(sorted, x) ==
    LET k == Cardinality({i \in 1..Len(sorted) : sorted[i].score >= x.score})
    IN  SubSeq(sorted, 1, k) \o <<x>> \o SubSeq(sorted, k + 1, Len(sorted))

RECURSIVE sort_desc(_)
sort_desc(s) ==
    IF s = <<>>
    THEN <<>>
    ELSE insert_desc(sort_desc(SubSeq(s, 1, Len(s) - 1)), s[Len(s)])

get_ollama_rerank_embedding(outcome, vector) ==
    IF outcome = "ok"
    THEN Return(vector)
    ELSE IF outcome = "status_error"
    THEN Raise(HTTPException(502, "Ollama rerank API error", outcome))
    ELSE Raise(HTTPException(500, "Ollama rerank connection failed", outcome))

RerankEmbeddings ==
    {[outcome |-> "ok", vector |-> v] : v \in RerankVecs}
        \cup {[outcome |-> o, vector |-> <<>>] : o \in OllamaOutcomes \ {"ok"}}

\* the scores of rerank_with_ollama once every embedding call has returned
ollama_scores(query_embedding, doc_embeddings) ==
    LET sims == [i \in 1..Len(doc_embeddings) |->
                    cosine_similarity(query_embedding, doc_embeddings[i])]
    IN  IF \E i \in 1..Len(sims) : ~sims[i].ok
        THEN Raise(sims[CHOOSE i \in 1..Len(sims) :
                            ~sims[i].ok /\ \A j \in 1..(i - 1) : sims[j].ok].exc[1])
        ELSE Return(sort_desc([i \in 1..Len(sims) |->
                        [index |-> i - 1, score |-> (sims[i].value + One) \div 2]]))

\* _rerank_with_crossencoder on the logits rerank_model.predict returned
crossencoder_scores(logits) ==
    IF ~rerank_model
    THEN Raise(PlainException("ValueError", "CrossEncoder rerank model not loaded"))
    ELSE Return(sort_desc([i \in 1..Len(logits) |->
                    [index |-> i - 1, score |-> sigmoid(logits[i])]]))

fallback_scores(documents) ==
    [i \in 1..Len(documents) |-> [index |-> i - 1, score |-> One - (i - 1) * FallbackStep]]

rerank_results(scores, documents) ==
    [i \in 1..Len(scores) |->
        [index |-> scores[i].index,
         document |-> documents[scores[i].index + 1],
         relevance_score |-> round6(scores[i].score)]]

\* mutant: top_k = 0 is taken as a limit
truncate_nonnegative(reranked, top_k) ==
    IF top_k # <<>> /\ top_k[1] >= 0
    THEN SubSeq(reranked, 1, Min(top_k[1], Len(reranked)))
    ELSE reranked

truncate(reranked, top_k) ==
    IF top_k # <<>> /\ top_k[1] > 0
    THEN SubSeq(reranked, 1, Min(top_k[1], Len(reranked)))
    ELSE reranked

rerank_except(e) ==
    HTTPException(500, "Reranking failed",
                  IF e.type = "HTTPException" THEN e.category ELSE e.cause)

RerankResponse(results) ==
    [NoResponse EXCEPT !.endpoint = "rerank", !.status = 200, !.results = results]

rerank_finish(scored, documents, top_k) ==
    IF scored.ok
    THEN RerankResponse(truncate(rerank_results(scored.value, documents), top_k))
    ELSE ErrorResponse("rerank", rerank_except(scored.exc[1]))

Documents(maxdocs) == {[i \in 1..n |-> i] : n \in 0..maxdocs}
TopKs(maxdocs) == {<<>>} \cup {<<k>> : k \in -1..(maxdocs + 1)}

RerankRequest(documents, top_k) ==
    [NoRequest EXCEPT !.endpoint = "rerank", !.documents = documents,
                      !.top_k = top_k]

RerankEmpty(maxdocs) ==
    /\ pc = "serving"
    /\ Idle
    /\ \E top_k \in TopKs(maxdocs) :
          /\ request' = RerankRequest(<<>>, top_k)
          /\ upstream' = [NoUpstream EXCEPT !.provider = "empty"]
          /\ response' = RerankResponse(<<>>)
    /\ UNCHANGED <<pc, module_state, inflight, key_log>>

RerankLocal(maxdocs) ==
    /\ pc = "serving"
    /\ Idle
    /\ RERANK_PROVIDER = "local" /\ rerank_model
    /\ \E documents \in Documents(maxdocs) \ {<<>>}, top_k \in TopKs(maxdocs),
          outcome \in {"ok", "predict_error"} :
          \E logits \in [1..Len(documents) -> Logits] :
             LET scored == IF outcome = "ok"
                           THEN crossencoder_scores(logits)
                           ELSE Raise(PlainException("RuntimeError", outcome))
             IN  /\ outcome # "ok" => \A i \in 1..Len(logits) : logits[i] = 0
                 /\ request' = RerankRequest(documents, top_k)
                 /\ upstream' = [NoUpstream EXCEPT
                                    !.provider = "local", !.calls = 1,
                                    !.failure = Failure(outcome),
                                    !.scores = IF scored.ok THEN scored.value ELSE <<>>]
                 /\ response' = rerank_finish(scored, documents, top_k)
    /\ UNCHANGED <<pc, module_state, inflight, key_log>>

RerankOllamaQueryFails(maxdocs) ==
    /\ pc = "serving"
    /\ Idle
    /\ RERANK_PROVIDER = "ollama" /\ ~(RERANK_PROVIDER = "local" /\ rerank_model)
    /\ \E documents \in Documents(maxdocs) \ {<<>>}, top_k \in TopKs(maxdocs),
          query \in {e \in RerankEmbeddings : e.outcome # "ok"} :
          /\ request' = RerankRequest(documents, top_k)
          /\ upstream' = [NoUpstream EXCEPT !.provider = "ollama", !.calls = 1,
                                            !.failure = query.outcome]
          /\ response' = rerank_finish(
                get_ollama_rerank_embedding(query.outcome, query.vector),
                documents, top_k)
    /\ UNCHANGED <<pc, module_state, inflight, key_log>>

RerankOllamaDocFails(maxdocs) ==
    /\ pc = "serving"
    /\ Idle
    /\ RERANK_PROVIDER = "ollama" /\ ~(RERANK_PROVIDER = "local" /\ rerank_model)
    /\ \E documents \in Documents(maxdocs) \ {<<>>}, top_k \in TopKs(maxdocs),
          query \in {e \in RerankEmbeddings : e.outcome = "ok"} :
          \E docs \in [1..Len(documents) -> RerankEmbeddings] :
             \E failed \in {i \in 1..Len(docs) : docs[i].outcome # "ok"} :
                /\ request' = RerankRequest(documents, top_k)
                /\ upstream' = [NoUpstream EXCEPT
                                   !.provider = "ollama",
                                   !.calls = 1 + Len(documents),
                                   !.failure = docs[failed].outcome]
                /\ response' = rerank_finish(
                      get_ollama_rerank_embedding(docs[failed].outcome,
                                                  docs[failed].vector),
                      documents, top_k)
    /\ UNCHANGED <<pc, module_state, inflight, key_log>>

RerankOllama(maxdocs) ==
    /\ pc = "serving"
    /\ Idle
    /\ RERANK_PROVIDER = "ollama" /\ ~(RERANK_PROVIDER = "local" /\ rerank_model)
    /\ \E documents \in Documents(maxdocs) \ {<<>>}, top_k \in TopKs(maxdocs),
          query \in RerankVecs :
          \E docs \in [1..Len(documents) -> RerankVecs] :
             LET scored == ollama_scores(query, docs)
             IN  /\ request' = RerankRequest(documents, top_k)
                 /\ upstream' = [NoUpstream EXCEPT
                                    !.provider = "ollama",
                                    !.calls = 1 + Len(documents),
                                    !.failure = IF scored.ok THEN "none"
                                                ELSE "shape_mismatch",
                                    !.scores = IF scored.ok THEN scored.value ELSE <<>>]
                 /\ response' = rerank_finish(scored, documents, top_k)
    /\ UNCHANGED <<pc, module_state, inflight, key_log>>

RerankFallback(maxdocs, maxtopk) ==
    /\ pc = "serving"
    /\ Idle
    /\ ~(RERANK_PROVIDER = "local" /\ rerank_model)
    /\ RERANK_PROVIDER # "ollama"
    /\ \E documents \in Documents(maxdocs) \ {<<>>}, top_k \in TopKs(maxtopk) :
          /\ request' = RerankRequest(documents, top_k)
          /\ upstream' = [NoUpstream EXCEPT !.provider = "fallback",
                                            !.scores = fallback_scores(documents)]
          /\ response' = rerank_finish(Return(fallback_scores(documents)),
                                       documents, top_k)
    /\ UNCHANGED <<pc, module_state, inflight, key_log>>

(* -------------------------- /health and /info ------------------------- *)
Health ==
    /\ pc = "serving"
    /\ Idle
    /\ request' = [NoRequest EXCEPT !.endpoint = "health"]
    /\ upstream' = NoUpstream
    /\ response' = [NoResponse EXCEPT
                       !.endpoint = "health", !.status = 200,
                       !.body = <<EMBEDDING_PROVIDER, RERANK_PROVIDER>>]
    /\ UNCHANGED <<pc, module_state, inflight, key_log>>

Info ==
    /\ pc = "serving"
    /\ Idle
    /\ request' = [NoRequest EXCEPT !.endpoint = "info"]
    /\ upstream' = NoUpstream
    /\ response' = [NoResponse EXCEPT
                       !.endpoint = "info", !.status = 200,
                       !.body = <<EMBEDDING_PROVIDER, RERANK_PROVIDER,
                                  RERANK_PROVIDER = "local" /\ rerank_model,
                                  IF EMBEDDING_PROVIDER = "local"
                                  THEN embedding_model ELSE FALSE,
                                  rerank_model>>,
                       !.dimension = TARGET_DIMENSION]
    /\ UNCHANGED <<pc, module_state, inflight, key_log>>

\* the response has been sent; the handler's locals are gone
Respond ==
    /\ pc = "serving"
    /\ ~Idle
    /\ request' = NoRequest
    /\ upstream' = NoUpstream
    /\ response' = NoResponse
    /\ UNCHANGED <<pc, module_state, inflight, key_log>>

(* --------------------------- specifications --------------------------- *)
Startup == StartupKeys \/ LoadEmbedding \/ LoadRerank
Embed(maxlen, maxinflight, maxcalls) ==
    \/ EmbedOllama(maxlen)
    \/ EmbedGeminiNoKeys
    \/ EmbedGeminiStart(maxinflight, maxcalls)
    \/ EmbedGeminiFinish(maxlen)
    \/ EmbedLocal(maxlen)
    \/ EmbedOther

Rerank(maxdocs, maxfallback) ==
    \/ RerankEmpty(maxdocs)
    \/ RerankLocal(maxdocs)
    \/ RerankOllamaQueryFails(maxdocs)
    \/ RerankOllamaDocFails(maxdocs)
    \/ RerankOllama(maxdocs)
    \/ RerankFallback(maxfallback, maxdocs)

Next == Startup \/ Embed(Small, Small, Small) \/ Rerank(Small, Small) \/ Health \/ Info \/ Respond
Spec == Init /\ [][Next]_vars

InitEmbed == Init /\ RERANK_PROVIDER = "local"
NextEmbed == Startup \/ Embed(MaxDim + 1, MaxInflight, MaxCalls) \/ Respond
SpecEmbed == InitEmbed /\ [][NextEmbed]_vars

InitRerank ==
    /\ Init
    /\ EMBEDDING_PROVIDER = "gemini"
    /\ GEMINI_API_KEYS = <<>>
    /\ TARGET_DIMENSION = MaxDim
NextRerank == Startup \/ Rerank(MaxDocs, MaxFallbackDocs) \/ Respond
SpecRerank == InitRerank /\ [][NextRerank]_vars

(* ------------------------------- claims ------------------------------- *)
EmbedDone == response.endpoint = "embed"
EmbedGotVector == EmbedDone /\ upstream.calls = 1 /\ upstream.failure = "none"
RerankOk == response.endpoint = "rerank" /\ response.status = 200

IsPadded(v, out) ==
    /\ Len(out) = TARGET_DIMENSION
    /\ \A i \in 1..Len(v) : out[i] = v[i]
    /\ \A i \in (Len(v) + 1)..TARGET_DIMENSION : out[i] = 0

\* C1: for every vector v no longer than TARGET_DIMENSION, normalize_embedding(v)
\* has length TARGET_DIMENSION, starts with the entries of v in order and ends
\* in zeros; an /embed response that normalizes such a vector carries exactly
\* that padded vector.
C1_PaddingOnly ==
    /\ \A v \in Vectors(MaxDim + 1) :
          Len(v) <= TARGET_DIMENSION =>
             /\ normalize_embedding(v).ok
             /\ IsPadded(v, normalize_embedding(v).value)
    /\ (EmbedGotVector /\ request.normalize
            /\ Len(upstream.vector) <= TARGET_DIMENSION) =>
          /\ response.status = 200
          /\ response.dimension = TARGET_DIMENSION
          /\ IsPadded(upstream.vector, response.embedding)

C1_Witness ==
    /\ EmbedGotVector /\ request.normalize
    /\ upstream.vector = <<1>>
    /\ TARGET_DIMENSION = Len(upstream.vector) + 1
    /\ response.embedding = <<1, 0>>

\* C2 (as claimed): whenever the backend returned a vector longer than
\* TARGET_DIMENSION, the /embed request ends in an error, whatever the
\* normalize flag, and no successful response carries a longer vector.
C2_OversizedAlwaysErrors ==
    /\ (EmbedGotVector /\ Len(upstream.vector) > TARGET_DIMENSION) =>
          response.status # 200
    /\ (EmbedDone /\ response.status = 200) =>
          Len(response.embedding) <= TARGET_DIMENSION

\* C2 (amended): an oversized backend vector ends in HTTP 500 "Embedding
\* generation failed" when the request normalizes, and is returned unchanged
\* in a successful response when normalize is false.
C2_OversizedErrorsWhenNormalizing ==
    (EmbedGotVector /\ Len(upstream.vector) > TARGET_DIMENSION) =>
        IF request.normalize
        THEN /\ response.status = 500
             /\ response.category = "Embedding generation failed"
             /\ response.embedding = <<>>
        ELSE /\ response.status = 200
             /\ response.embedding = upstream.vector
             /\ response.dimension = Len(upstream.vector)

C2_Witness ==
    /\ EmbedGotVector /\ request.normalize
    /\ Len(upstream.vector) > TARGET_DIMENSION
    /\ response.status = 500

Descending(results) ==
    \A i \in 1..(Len(results) - 1) :
        results[i].relevance_score >= results[i + 1].relevance_score

\* C3: in every successful /rerank response the returned (rounded) scores
\* of consecutive results are non-increasing, on each scoring path and for
\* every top_k.
C3_SortedDescending == RerankOk => Descending(response.results)

C3_Witness ==
    /\ RerankOk
    /\ upstream.provider = "ollama"
    /\ Len(response.results) >= 2
    /\ response.results[1].index > response.results[2].index
    /\ response.results[1].relevance_score > response.results[2].relevance_score

\* C4 (as claimed): every relevance_score of a successful /rerank response
\* lies in [0,1], on each scoring path and for every number of documents.
C4_ScoresInUnitInterval ==
    RerankOk =>
        \A i \in 1..Len(response.results) :
            /\ response.results[i].relevance_score >= 0
            /\ response.results[i].relevance_score <= Micro

ExpectedCount(n, top_k) ==
    IF top_k # <<>> /\ top_k[1] > 0 THEN Min(top_k[1], n) ELSE n

\* C5: a successful /rerank over n documents returns min(top_k, n) results
\* for a positive top_k and n results for an absent, zero or negative one;
\* the results kept are the first of the sorted list; an empty document list
\* gives an empty result list with no backend call.
C5_TopKTruncation ==
    RerankOk =>
        LET n == Len(request.documents)
            count == ExpectedCount(n, request.top_k)
        IN  /\ Len(response.results) = count
            /\ count <= n
            /\ Len(upstream.scores) = n
            /\ \A i \in 1..count :
                  /\ response.results[i].index = upstream.scores[i].index
                  /\ response.results[i].relevance_score
                        = round6(upstream.scores[i].score)
            /\ n = 0 => (response.results = <<>> /\ upstream.calls = 0)

C5_Witness ==
    /\ RerankOk
    /\ Len(request.documents) = 3
    /\ request.top_k = <<2>>
    /\ Len(response.results) = 2
    /\ response.results[1].index = 2

\* C6 (as claimed): two results with the same returned relevance_score
\* appear in the order of their original indices, also when the scores are
\* equal only after the rounding to 6 decimals.
C6_TiesByOriginalIndex ==
    RerankOk =>
        \A i, j \in 1..Len(response.results) :
            (i < j /\ response.results[i].relevance_score
                        = response.results[j].relevance_score)
                => response.results[i].index < response.results[j].index

\* C6 (amended): two results whose scores are equal before the rounding
\* appear in the order of their original indices; the results keep the order
\* of the unrounded scores.
C6_RawTiesStable ==
    RerankOk =>
        /\ \A i, j \in 1..Len(upstream.scores) :
              (i < j /\ upstream.scores[i].score = upstream.scores[j].score)
                  => upstream.scores[i].index < upstream.scores[j].index
        /\ \A i \in 1..Len(response.results) :
              response.results[i].index = upstream.scores[i].index

C6_Witness ==
    /\ RerankOk
    /\ Len(response.results) = 3
    /\ upstream.scores[1].score = upstream.scores[2].score
    /\ upstream.scores[1].index = 1
    /\ upstream.scores[2].index = 2
    /\ upstream.scores[3].index = 0

KeyUses(k) == Cardinality({j \in 1..Len(key_log) : key_log[j] = k})

\* C7: with n >= 1 keys the j-th call of get_gemini_embedding (from 0,
\* failed calls included) uses key k(j mod n), so the usage counts of two
\* keys differ by at most 1; with no key every call fails with HTTP 500
\* and Gemini is not contacted.
C7_RoundRobin ==
    LET n == Len(GEMINI_API_KEYS)
    IN  /\ \A j \in 1..Len(key_log) :
              n >= 1 /\ key_log[j] = GEMINI_API_KEYS[((j - 1) % n) + 1]
        /\ \A a, b \in 1..n :
              KeyUses(GEMINI_API_KEYS[a]) - KeyUses(GEMINI_API_KEYS[b]) <= 1
        /\ (EmbedDone /\ upstream.provider = "gemini" /\ n = 0) =>
              /\ response.status = 500
              /\ upstream.calls = 0
        /\ (EmbedDone /\ upstream.provider = "gemini" /\ upstream.calls = 1) =>
              \E j \in 1..Len(key_log) : key_log[j] = upstream.keys_taken

C7_Witness ==
    /\ Len(GEMINI_API_KEYS) >= 2
    /\ Len(key_log) > Len(GEMINI_API_KEYS)
    /\ EmbedDone /\ upstream.provider = "gemini"
    /\ upstream.failure = "api_error"
    /\ upstream.keys_taken = GEMINI_API_KEYS[1]

\* C8 (as claimed): an Ollama call that fails with an HTTP status error is
\* answered with HTTP 502 and one that fails otherwise with HTTP 500, for
\* /embed and for /rerank alike.
C8_OllamaStatusMapping ==
    (response.endpoint \in {"embed", "rerank"} /\ upstream.provider = "ollama") =>
        /\ upstream.failure = "status_error" => response.status = 502
        /\ upstream.failure \in {"connect_error", "malformed_body"} =>
              response.status = 500

BackendFailures ==
    {"status_error", "connect_error", "malformed_body", "api_error", "encode_error"}

\* C9 (as claimed): every backend error during /embed reaches the client in
\* the category "Embedding generation failed" with the cause in the detail.
C9_SingleCategory ==
    (EmbedDone /\ upstream.failure \in BackendFailures) =>
        /\ response.category = "Embedding generation failed"
        /\ response.cause = upstream.failure

\* C9 (amended): only a failure of the local model is reported as HTTP 500
\* "Embedding generation failed"; an Ollama failure is reported as 502
\* "Ollama API error" or 500 "Ollama connection failed" and a Gemini failure
\* as 500 "Gemini API error", each with the upstream cause in the detail.
C9_CategoryPerProvider ==
    (EmbedDone /\ upstream.failure \in BackendFailures) =>
        /\ response.cause = upstream.failure
        /\ upstream.provider = "local" =>
              /\ response.status = 500
              /\ response.category = "Embedding generation failed"
        /\ upstream.provider = "ollama" =>
              IF upstream.failure = "status_error"
              THEN response.status = 502 /\ response.category = "Ollama API error"
              ELSE response.status = 500
                      /\ response.category = "Ollama connection failed"
        /\ upstream.provider = "gemini" =>
              response.status = 500 /\ response.category = "Gemini API error"

C9_Witness ==
    /\ EmbedDone
    /\ upstream.provider = "local"
    /\ upstream.failure = "encode_error"
    /\ response.category = "Embedding generation failed"

\* C10 (as claimed): once start-up has finished no request changes any
\* module-level state, the key-rotation cursor included.
C10_NoModuleStateChange ==
    [][pc = "serving" => module_state' = module_state]_vars

\* C10 (amended): once start-up has finished no request changes the
\* providers, the model handles, the target dimension or the key list; the
\* key-rotation cursor is the one exception: every get_gemini_embedding call
\* that finds keys advances it by one, and nothing else moves it.
C10_OnlyCursorMoves ==
    [][pc = "serving" =>
          /\ config' = config
          /\ gemini_key_cycle'.active = gemini_key_cycle.active
          /\ IF key_log' # key_log
             THEN /\ EMBEDDING_PROVIDER = "gemini"
                  /\ gemini_key_cycle.active
                  /\ gemini_key_cycle'.pos
                        = (gemini_key_cycle.pos + 1) % Len(GEMINI_API_KEYS)
             ELSE gemini_key_cycle' = gemini_key_cycle]_vars

C10_Witness ==
    /\ pc = "serving"
    /\ gemini_key_cycle.pos = 1
    /\ response.endpoint = "rerank"
    /\ key_log # <<>>

\* C11: padding is idempotent: for every vector v no longer than
\* TARGET_DIMENSION, normalizing the normalized vector gives the normalized
\* vector again, and a vector of exactly TARGET_DIMENSION entries is returned
\* as it is; the embedding of a normalizing /embed response is such a fixed
\* point.
C11_PaddingIdempotent ==
    /\ \A v \in Vectors(MaxDim + 1) :
          /\ Len(v) <= TARGET_DIMENSION =>
                /\ normalize_embedding(v).ok
                /\ normalize_embedding(normalize_embedding(v).value)
                      = normalize_embedding(v)
          /\ Len(v) = TARGET_DIMENSION => normalize_embedding(v) = Return(v)
    /\ (EmbedDone /\ request.normalize /\ response.status = 200) =>
          normalize_embedding(response.embedding) = Return(response.embedding)

C11_Witness ==
    /\ EmbedGotVector /\ request.normalize
    /\ response.status = 200
    /\ Len(upstream.vector) < TARGET_DIMENSION
    /\ response.embedding # upstream.vector
    /\ normalize_embedding(response.embedding) = Return(response.embedding)

\* C12: a local provider whose model failed to load has been switched to
\* ollama before any request is handled, for embedding and for rerank
\* separately; so while requests are handled a local provider has its model
\* loaded, no response is the 503 "Local embedding model not available",
\* and the decreasing-score rerank fallback is taken only when
\* RERANK_PROVIDER is neither local nor ollama.
C12_StartupFallback ==
    /\ ~Idle => pc = "serving"
    /\ pc = "serving" =>
          /\ EMBEDDING_PROVIDER = "local" => embedding_model
          /\ RERANK_PROVIDER = "local" => rerank_model
          /\ EMBEDDING_PROVIDER =
                IF environ.EMBEDDING_PROVIDER = "local" /\ ~embedding_model
                THEN "ollama" ELSE environ.EMBEDDING_PROVIDER
          /\ RERANK_PROVIDER =
                IF environ.RERANK_PROVIDER = "local" /\ ~rerank_model
                THEN "ollama" ELSE environ.RERANK_PROVIDER
          /\ response.status # 503
          /\ (response.endpoint = "rerank" /\ upstream.provider = "fallback") =>
                RERANK_PROVIDER \notin {"local", "ollama"}

C12_Witness ==
    /\ pc = "serving"
    /\ environ.EMBEDDING_PROVIDER = "local" /\ EMBEDDING_PROVIDER = "ollama"
    /\ environ.RERANK_PROVIDER = "local" /\ RERANK_PROVIDER = "ollama"
    /\ ~embedding_model /\ ~rerank_model
    /\ response.endpoint = "embed" /\ upstream.provider = "ollama"
====
